---------------------------- MODULE Spec2Model ----------------------------
(***************************************************************************)
(* Authormaton core: the text chunker (services/chunking_service.py), the  *)
(* evidence ranker (services/ranking_service.py), the citation layer of    *)
(* the synthesizer (services/synthesis_service.py), the concurrent web     *)
(* fetcher (services/web_fetch_service.py) and the search-fetch-rank-      *)
(* synthesize endpoint (api/endpoints/web_answering.py).                   *)
(*                                                                         *)
(* Python strings are sequences of one-character strings; Python offsets   *)
(* are 0-based and half-open, as in the source.                            *)
(***************************************************************************)
EXTENDS Integers, Sequences, FiniteSets, TLC

VARIABLES
    chunkCall,      \* the arguments of the chunk_text call under way
    chunkRet,       \* what chunk_text returned or raised (NotCalled before)
    rankCall,       \* RankingService instance and rank_documents arguments
    rankRet,        \* what rank_documents returned or raised
    synthCall,      \* generate_answer arguments
    synthRet,       \* the SynthesisResult of generate_answer
    fetchCall,      \* fetch_urls arguments, max_concurrency, httpx behaviour
    semaphore,      \* value of WebFetchService.semaphore (free permits)
    tasks,          \* the per-URL _fetch_url coroutines of fetch_urls
    fetchRet,       \* what fetch_urls returned
    resultsRet,     \* the search results fetch_search_results was given, and
                    \* what it returned
    pipeline,       \* the web_search_answer request under way
    vdbCall,        \* the VectorDBClient method called, its arguments, the
                    \* retry setting
    vdb,            \* the VectorDBClient and its call under way: attempts,
                    \* self.index, the calls made to the Pinecone collaborator
    embedCall,      \* embed_texts_batched arguments and the embedding settings
    embedRun,       \* embed_texts_batched under way: batch, attempt,
                    \* all_vectors
    cache,          \* WebSearchService._cache, in dict order
    clock,          \* time.time()
    cacheUse,       \* when each cached entry was last used, and the last
                    \* eviction
    jobs,           \* _jobs of api/endpoints/internal.py
    jobTasks,       \* the background tasks scheduled by process_material
    jobHistory      \* the statuses each job has had, in order

\* The state of the retrieval side (chunking, ranking, synthesis, fetching,
\* the web_search_answer request) and of the backend side (vector store)
retrievalVars == <<chunkCall, chunkRet, rankCall, rankRet, synthCall, synthRet,
                   fetchCall, semaphore, tasks, fetchRet, resultsRet, pipeline>>
vectorDBVars == <<vdbCall, vdb>>
embedVars == <<embedCall, embedRun>>
cacheVars == <<cache, clock, cacheUse>>
jobVars == <<jobs, jobTasks, jobHistory>>
backendVars == <<vectorDBVars, embedVars, cacheVars, jobVars>>

vars == <<retrievalVars, backendVars>>

None == "None"
\* An Optional[int] argument: <<>> is None, <<n>> is n
NoInt == <<>>
SomeInt(n) == <<n>>
\* No call under way; nothing returned yet
Idle == [idle |-> TRUE]
NotCalled == [status |-> "not_called"]

\* ------------------------------------------------------------------ bounds

MaxTextLen == 5
MaxParam == 3
LongTextLen == 130

\* ------------------------------------------------------- Python primitives

Min(a, b) == IF a <= b THEN a ELSE b
Max(a, b) == IF a >= b THEN a ELSE b

\* s[a:b] for 0 <= a, with Python's clamping of b to len(s)
PySlice(s, a, b) == SubSeq(s, Max(a, 0) + 1, Min(b, Len(s)))

\* ---------------------------------------------------------------- chunker

Terminators == {".", "!", "?"}

\* _estimate_tokens_from_text without tiktoken: max(1, len(text) // 4)
CharsPerToken == 4
EstimateTokens(t) == Max(1, Len(t) \div CharsPerToken)

\* _make_chunk_meta: the six-key dict of a chunk (id is a fresh uuid: here the
\* creation index, unique within the call)
MakeChunkMeta(text_content, chunk_start, chunk_end, order) ==
    [id |-> order, order |-> order, chunk_start |-> chunk_start,
     chunk_end |-> chunk_end, text |-> text_content,
     estimated_tokens |-> EstimateTokens(text_content)]

\* The least element of a non-empty set of offsets
Least(S) == CHOOSE q \in S : \A r \in S : q <= r

\* First offset q >= p with text[q] a terminator, or Len(text) when there is none
FirstTerminator(text, p) ==
    LET found == {q \in p..(Len(text) - 1) : text[q + 1] \in Terminators}
    IN IF found = {} THEN Len(text) ELSE Least(found)

\* First offset e >= p with text[e] not a terminator, or Len(text)
EndOfTerminators(text, p) ==
    LET found == {e \in p..(Len(text) - 1) : text[e + 1] \notin Terminators}
    IN IF found = {} THEN Len(text) ELSE Least(found)

\* finditer of [^.!?]*[.!?]+(?=\s*|$): the spans <<start, end>> of the
\* sentences from offset p on; a tail without terminator matches nothing
RECURSIVE SentenceSpans(_, _)
SentenceSpans(text, p) ==
    LET q == FirstTerminator(text, p) IN
    IF q >= Len(text) THEN <<>>
    ELSE LET e == EndOfTerminators(text, q)
         IN <<(<<p, e>>)>> \o SentenceSpans(text, e)

\* The grouping loop over sentences_with_spans (from sentence i on).
\* cur: the spans of current_chunk_sentences, cur_len: current_chunk_char_length,
\* cur_start: current_chunk_start_idx, acc: initial_chunks as <<start, end>>
RECURSIVE GroupSentences(_, _, _, _, _, _, _)
GroupSentences(spans, i, max_length, cur, cur_len, cur_start, acc) ==
    IF i > Len(spans)
    THEN IF cur /= <<>> THEN Append(acc, <<cur_start, cur[Len(cur)][2]>>) ELSE acc
    ELSE
      LET s_start == spans[i][1]
          s_end == spans[i][2]
          start0 == IF cur = <<>> THEN s_start ELSE cur_start
          potential_new_length ==
              cur_len + (s_end - s_start) + (IF cur /= <<>> THEN 1 ELSE 0)
      IN IF potential_new_length <= max_length
         THEN GroupSentences(spans, i + 1, max_length, Append(cur, spans[i]),
                             potential_new_length, start0, acc)
         ELSE GroupSentences(spans, i + 1, max_length, <<spans[i]>>,
                             s_end - s_start, s_start,
                             IF cur /= <<>>
                             THEN Append(acc, <<start0, cur[Len(cur)][2]>>)
                             ELSE acc)

\* The inner scan of the overlap step: the first sentence start that is
\* >= desired_overlap_start and < current_chunk_start, else current_chunk_start
RECURSIVE OverlapStart(_, _, _, _)
OverlapStart(spans, j, desired_overlap_start, current_chunk_start) ==
    IF j > Len(spans) THEN current_chunk_start
    ELSE IF spans[j][1] >= desired_overlap_start /\ spans[j][1] < current_chunk_start
         THEN spans[j][1]
    ELSE IF spans[j][1] >= current_chunk_start THEN current_chunk_start
    ELSE OverlapStart(spans, j + 1, desired_overlap_start, current_chunk_start)

\* overlapped_chunks: the first chunk as is, each later one restarted at a
\* sentence boundary inside the previous chunk's tail
ApplyOverlap(spans, initial, overlap) ==
    [i \in 1..Len(initial) |->
        IF i = 1 THEN initial[1]
        ELSE LET prev_chunk_end == initial[i - 1][2]
                 current_chunk_start == initial[i][1]
                 found == OverlapStart(spans, 1, prev_chunk_end - overlap,
                                       current_chunk_start)
                 new_chunk_start_idx == Max(0, Min(found, current_chunk_start))
             IN <<new_chunk_start_idx, initial[i][2]>>]

SentenceChunks(text, max_length, overlap) ==
    LET spans == SentenceSpans(text, 0)
    IN ApplyOverlap(spans, GroupSentences(spans, 1, max_length, <<>>, 0, 0, <<>>),
                    overlap)

\* Distance between two fixed windows
WindowStrideSkipsOverlap(max_length, overlap) == max_length
WindowStride(max_length, overlap) == max_length - overlap

\* naive fixed-window chunking, from start_idx on
RECURSIVE FixedWindows(_, _, _, _)
FixedWindows(n, start_idx, max_length, overlap) ==
    IF start_idx >= n THEN <<>>
    ELSE LET end_idx == Min(start_idx + max_length, n) IN
         IF end_idx = n THEN <<(<<start_idx, end_idx>>)>>
         ELSE <<(<<start_idx, end_idx>>)>>
              \o FixedWindows(n, start_idx + WindowStride(max_length, overlap),
                              max_length, overlap)

\* Token-target refinement of one chunk of length n starting at original_start.
\* A stride <= 0 leaves split_start at 0: the loop never ends when the chunk is
\* longer than one sub-window.
MinSubWindow == 100
ApproxChars(token_target) == Max(MinSubWindow, token_target * CharsPerToken)

RECURSIVE SubSplit(_, _, _, _, _)
SubSplit(original_start, n, split_start, approx_chars, overlap) ==
    IF split_start >= n THEN <<>>
    ELSE LET split_end == Min(split_start + approx_chars, n) IN
         IF split_end = n THEN <<(<<original_start + split_start,
                                    original_start + split_end>>)>>
         ELSE <<(<<original_start + split_start, original_start + split_end>>)>>
              \o SubSplit(original_start, n,
                          Max(0, split_start + approx_chars - overlap),
                          approx_chars, overlap)

NeedsSplit(c, token_target) ==
    /\ token_target /= NoInt
    /\ Max(1, (c[2] - c[1]) \div CharsPerToken) > token_target[1] * 2

SplitDiverges(c, token_target, overlap) ==
    /\ NeedsSplit(c, token_target)
    /\ ApproxChars(token_target[1]) - overlap <= 0
    /\ c[2] - c[1] > ApproxChars(token_target[1])

RECURSIVE Refine(_, _, _, _)
Refine(chunks, i, token_target, overlap) ==
    IF i > Len(chunks) THEN <<>>
    ELSE (IF NeedsSplit(chunks[i], token_target)
          THEN SubSplit(chunks[i][1], chunks[i][2] - chunks[i][1], 0,
                        ApproxChars(token_target[1]), overlap)
          ELSE <<chunks[i]>>)
         \o Refine(chunks, i + 1, token_target, overlap)

\* Merge of a small chunk into the previous one: the texts joined by a space,
\* the end moved to the small chunk's end
MergeKeepsEnd(prev, c) ==
    [prev EXCEPT !.text = prev.text \o <<" ">> \o c.text,
                 !.estimated_tokens =
                     EstimateTokens(prev.text \o <<" ">> \o c.text)]
MergeInto(prev, c) ==
    [prev EXCEPT !.text = prev.text \o <<" ">> \o c.text,
                 !.chunk_end = c.chunk_end,
                 !.estimated_tokens =
                     EstimateTokens(prev.text \o <<" ">> \o c.text)]

RECURSIVE MergeSmall(_, _, _, _)
MergeSmall(metas, i, min_chunk_length, merged) ==
    IF i > Len(metas) THEN merged
    ELSE LET c == metas[i] IN
         IF merged /= <<>> /\ c.chunk_end - c.chunk_start < min_chunk_length
         THEN MergeSmall(metas, i + 1, min_chunk_length,
                         [merged EXCEPT ![Len(merged)] = MergeInto(@, c)])
         ELSE MergeSmall(metas, i + 1, min_chunk_length, Append(merged, c))

Reorder(merged) == [i \in 1..Len(merged) |-> [merged[i] EXCEPT !.order = i - 1]]

\* The messages of the three parameter checks
MsgMaxLength == "max_length must be greater than 0."
MsgOverlapNegative == "overlap must be >= 0."
MsgOverlapTooLarge == "overlap must be less than max_length."

\* Which check rejects the parameters: the first one that fails
ParamErrorOverlapFirst(max_length, overlap) ==
    IF overlap < 0 THEN MsgOverlapNegative
    ELSE IF max_length <= 0 THEN MsgMaxLength
    ELSE IF overlap > max_length THEN MsgOverlapTooLarge
    ELSE None
ParamError(max_length, overlap) ==
    IF max_length <= 0 THEN MsgMaxLength
    ELSE IF overlap < 0 THEN MsgOverlapNegative
    ELSE IF overlap >= max_length THEN MsgOverlapTooLarge
    ELSE None

\* except Exception as e: raise DocumentChunkError(f"Failed to chunk text: {e}")
ChunkRaise(msg) ==
    [status |-> "raised", exception |-> "DocumentChunkError",
     message |-> <<"Failed to chunk text: ", msg>>, chunks |-> <<>>]

ChunkText(text, max_length, overlap, by_sentence, min_chunk_length, token_target) ==
    IF text = <<>> THEN [status |-> "returned", exception |-> None,
                         message |-> <<>>, chunks |-> <<>>]
    ELSE IF ParamError(max_length, overlap) /= None
         THEN ChunkRaise(ParamError(max_length, overlap))
    ELSE
      LET initial_chunks == IF by_sentence
                            THEN SentenceChunks(text, max_length, overlap)
                            ELSE FixedWindows(Len(text), 0, max_length, overlap)
      IN IF \E i \in 1..Len(initial_chunks) :
                SplitDiverges(initial_chunks[i], token_target, overlap)
         THEN [status |-> "nonterminating", exception |-> None,
               message |-> <<>>, chunks |-> <<>>]
         ELSE
           LET refined_chunks == Refine(initial_chunks, 1, token_target, overlap)
               chunks_meta ==
                   [i \in 1..Len(refined_chunks) |->
                       MakeChunkMeta(PySlice(text, refined_chunks[i][1],
                                             refined_chunks[i][2]),
                                     refined_chunks[i][1], refined_chunks[i][2],
                                     i - 1)]
           IN [status |-> "returned", exception |-> None, message |-> <<>>,
               chunks |-> Reorder(MergeSmall(chunks_meta, 1, min_chunk_length,
                                             <<>>))]

\* --------------------------------------------------- chunk_text as a call

\* The defaults of chunk_text's parameters
DefaultMaxLength == 500
DefaultOverlap == 50
DefaultMinChunkLength == 20

Alphabet == {"a", " ", "."}
Texts == UNION {[1..n -> Alphabet] : n \in 0..MaxTextLen}
TokenTargets == {NoInt, SomeInt(0), SomeInt(1)}

Repeat(c, n) == [i \in 1..n |-> c]
Sentence(n) == Repeat("a", n - 1) \o <<".">>

\* Short texts under every small parameter combination, the invalid ones
\* included
SmallCalls ==
    [text : Texts, max_length : -1..MaxParam, overlap : -1..MaxParam,
     by_sentence : BOOLEAN, min_chunk_length : 0..MaxParam,
     token_target : TokenTargets]

\* chunk_text(text): every parameter at its default
DefaultCalls ==
    [text : Texts, max_length : {DefaultMaxLength}, overlap : {DefaultOverlap},
     by_sentence : {TRUE}, min_chunk_length : {DefaultMinChunkLength},
     token_target : {NoInt}]

\* "Sentence one. Sentence two. Sentence three."
SentenceWord == <<"S", "e", "n", "t", "e", "n", "c", "e">>
SentenceOne == SentenceWord \o <<" ", "o", "n", "e", ".">>
SentenceTwo == SentenceWord \o <<" ", "t", "w", "o", ".">>
SentenceThree == SentenceWord \o <<" ", "t", "h", "r", "e", "e", ".">>
ExampleText == SentenceOne \o <<" ">> \o SentenceTwo \o <<" ">> \o SentenceThree

\* chunk_text(ExampleText, max_length=20, overlap=5, by_sentence=True), with
\* min_chunk_length left at its default or set to 0
ExampleCalls ==
    [text : {ExampleText}, max_length : {20}, overlap : {5}, by_sentence : {TRUE},
     min_chunk_length : {0, DefaultMinChunkLength}, token_target : {NoInt}]

\* Texts longer than one refinement sub-window, with windows and overlaps of
\* that size
LongCalls ==
    [text : {Repeat("a", LongTextLen), Sentence(LongTextLen)},
     max_length : {LongTextLen - 10, LongTextLen + 10},
     overlap : {0, 30, 100, 110}, by_sentence : BOOLEAN,
     min_chunk_length : {0, DefaultMinChunkLength},
     token_target : {NoInt, SomeInt(10), SomeInt(30)}]

ChunkCalls == SmallCalls \cup DefaultCalls \cup ExampleCalls \cup LongCalls

ChunkIdle == chunkCall = Idle /\ chunkRet = NotCalled
RankIdle == rankCall = Idle /\ rankRet = NotCalled
SynthIdle == synthCall = Idle /\ synthRet = NotCalled
FetchIdle ==
    /\ fetchCall = Idle /\ semaphore = 0 /\ tasks = <<>>
    /\ fetchRet = NotCalled /\ resultsRet = NotCalled
PipelineIdle == pipeline = Idle
VectorDBIdle == vdbCall = Idle /\ vdb = Idle
EmbedIdle == embedCall = Idle /\ embedRun = Idle
CacheIdle == cache = <<>> /\ clock = 0 /\ cacheUse = Idle
JobsIdle == jobs = <<>> /\ jobTasks = <<>> /\ jobHistory = <<>>
BackendIdle == VectorDBIdle /\ EmbedIdle /\ CacheIdle /\ JobsIdle
RetrievalIdle ==
    ChunkIdle /\ RankIdle /\ SynthIdle /\ FetchIdle /\ PipelineIdle

InitChunk ==
    /\ chunkCall \in ChunkCalls
    /\ chunkRet = NotCalled
    /\ RankIdle /\ SynthIdle /\ FetchIdle /\ PipelineIdle /\ BackendIdle

\* One call of chunk_text, to its return or its exception
CallChunkText ==
    /\ chunkCall /= Idle
    /\ chunkRet = NotCalled
    /\ chunkRet' = ChunkText(chunkCall.text, chunkCall.max_length,
                             chunkCall.overlap, chunkCall.by_sentence,
                             chunkCall.min_chunk_length, chunkCall.token_target)
    /\ UNCHANGED <<chunkCall, rankCall, rankRet, synthCall, synthRet,
                   fetchCall, semaphore, tasks, fetchRet, resultsRet, pipeline, backendVars>>

NextChunk == CallChunkText

SpecChunk == InitChunk /\ [][NextChunk]_vars

\* ------------------------------------------------------- chunker: claims

ChunkReturned == chunkRet.status = "returned"
ChunkDone == chunkRet.status /= "not_called"

\* C2: every chunk returned by chunk_text satisfies
\* text[chunk_start:chunk_end] == chunk.text against the original input text,
\* the chunks produced by the small-chunk merge included.
C2_OffsetFidelity ==
    ChunkReturned =>
        \A i \in 1..Len(chunkRet.chunks) :
            PySlice(chunkCall.text, chunkRet.chunks[i].chunk_start,
                    chunkRet.chunks[i].chunk_end) = chunkRet.chunks[i].text

\* chunk_text raised, returned no chunk, and the error reports `what`
RejectedAs(what) ==
    /\ chunkRet.status = "raised"
    /\ chunkRet.chunks = <<>>
    /\ chunkRet.message[Len(chunkRet.message)] = what

C10_FixedWindowStride ==
    (ChunkReturned /\ ~chunkCall.by_sentence /\ chunkCall.token_target = NoInt) =>
        \A i \in 1..(Len(chunkRet.chunks) - 1) :
            chunkRet.chunks[i + 1].chunk_start =
                chunkRet.chunks[i].chunk_start + chunkCall.max_length
                    - chunkCall.overlap

\* C10's case: fixed windows, at least two chunks returned, the last of them
\* grown by the merge of a small final window
C10_Witness ==
    /\ ChunkReturned /\ ~chunkCall.by_sentence /\ chunkCall.token_target = NoInt
    /\ Len(chunkRet.chunks) >= 2
    /\ LET last == chunkRet.chunks[Len(chunkRet.chunks)]
       IN last.chunk_end - last.chunk_start > chunkCall.max_length

C12_MaxLengthBound ==
    ChunkReturned =>
        \A i \in 1..Len(chunkRet.chunks) :
            Len(chunkRet.chunks[i].text) <= chunkCall.max_length

\* sub occurs in s
Contains(s, sub) ==
    \E i \in 0..(Len(s) - Len(sub)) : PySlice(s, i, i + Len(sub)) = sub

\* C13: chunk_text("Sentence one. Sentence two. Sentence three.",
\* max_length=20, overlap=5, by_sentence=True), the rest at its defaults,
\* returns a first chunk "Sentence one." at offsets 0 to 13 and a second chunk
\* that starts at or before 13 and includes "Sentence two.".
C13_EndToEndExample ==
    (/\ ChunkDone /\ chunkCall.text = ExampleText
     /\ chunkCall.max_length = 20 /\ chunkCall.overlap = 5
     /\ chunkCall.by_sentence /\ chunkCall.min_chunk_length = 20
     /\ chunkCall.token_target = NoInt) =>
        /\ ChunkReturned
        /\ Len(chunkRet.chunks) >= 2
        /\ chunkRet.chunks[1].text = SentenceOne
        /\ chunkRet.chunks[1].chunk_start = 0
        /\ chunkRet.chunks[1].chunk_end = 13
        /\ chunkRet.chunks[2].chunk_start <= 13
        /\ Contains(chunkRet.chunks[2].text, SentenceTwo)

\* C20: chunk_text called with its default parameters returns at least one
\* chunk for every non-empty text.
C20_DefaultChunkingNonEmpty ==
    (/\ ChunkDone /\ chunkCall.text /= <<>>
     /\ chunkCall.max_length = 500 /\ chunkCall.overlap = 50
     /\ chunkCall.by_sentence /\ chunkCall.min_chunk_length = 20
     /\ chunkCall.token_target = NoInt) =>
        ChunkReturned /\ Len(chunkRet.chunks) >= 1

\* C26: with token_target set and otherwise valid parameters, an overlap of
\* max(100, token_target * 4) or more included, chunk_text terminates, and in
\* fixed-window mode its last chunk ends at len(text).
C26_RefinementProgress ==
    (/\ ChunkDone /\ chunkCall.token_target /= NoInt
     /\ ParamError(chunkCall.max_length, chunkCall.overlap) = None
     /\ chunkCall.text /= <<>>) =>
        /\ ChunkReturned
        /\ ~chunkCall.by_sentence =>
               /\ Len(chunkRet.chunks) >= 1
               /\ chunkRet.chunks[Len(chunkRet.chunks)].chunk_end
                      = Len(chunkCall.text)

\* ------------------------------------------------------------ synthesizer

MaxAnswerLen == 5
MaxEvidence == 2

Digits == {"0", "1", "2", "3", "4", "5", "6", "7", "8", "9"}
DigitValue(c) ==
    CASE c = "0" -> 0 [] c = "1" -> 1 [] c = "2" -> 2 [] c = "3" -> 3
      [] c = "4" -> 4 [] c = "5" -> 5 [] c = "6" -> 6 [] c = "7" -> 7
      [] c = "8" -> 8 [] c = "9" -> 9

\* First offset e >= p with text[e] not a digit, or Len(text): the end of \d+
RECURSIVE EndOfDigits(_, _)
EndOfDigits(text, p) ==
    IF p >= Len(text) THEN Len(text)
    ELSE IF text[p + 1] \in Digits THEN EndOfDigits(text, p + 1)
    ELSE p

\* int(id) of the digits text[a:b], acc the value of the digits read so far
RECURSIVE ParseInt(_, _, _, _)
ParseInt(text, a, b, acc) ==
    IF a >= b THEN acc
    ELSE ParseInt(text, a + 1, b, acc * 10 + DigitValue(text[a + 1]))

\* _extract_citation_ids: re.findall(r'\[\^(\d+)\]', text) from offset p on,
\* each match converted by int(); the set of the values
RECURSIVE ExtractCitationIds(_, _)
ExtractCitationIds(text, p) ==
    IF p >= Len(text) THEN {}
    ELSE
      LET e == EndOfDigits(text, p + 2)
          matches == /\ text[p + 1] = "["
                     /\ p + 1 < Len(text) /\ text[p + 2] = "^"
                     /\ e > p + 2
                     /\ e < Len(text) /\ text[e + 1] = "]"
      IN IF matches
         THEN {ParseInt(text, p + 2, e, 0)} \cup ExtractCitationIds(text, e + 1)
         ELSE ExtractCitationIds(text, p + 1)

NoEvidenceAnswer == "No evidence available to answer this question."
FallbackAnswer ==
    "I'm sorry, but I encountered an internal error while generating your answer. Please try again with a different query or contact support if the problem persists."

\* The SynthesisResult of the except clause
FallbackResult ==
    [status |-> "returned", answer_markdown |-> <<FallbackAnswer>>,
     used_citation_ids |-> {}]

\* The exception of the collaborator leaves generate_answer
Propagate(result) ==
    [status |-> "raised", answer_markdown |-> <<>>, used_citation_ids |-> {}]
\* except Exception: the fallback result is returned
Recover(result) == result

\* generate_answer. api is what the chat-completion call does: it raises, or
\* it returns a message whose content is None, or one whose content is a text
GenerateAnswer(query, evidence_list, api) ==
    IF query = <<>> \/ evidence_list = <<>>
    THEN [status |-> "returned", answer_markdown |-> <<NoEvidenceAnswer>>,
          used_citation_ids |-> {}]
    ELSE IF api.kind = "text"
    THEN [status |-> "returned", answer_markdown |-> api.content,
          used_citation_ids |-> ExtractCitationIds(api.content, 0)]
    ELSE \* except Exception: the call raised, or re.findall(None) raised
         Recover(FallbackResult)

AnswerAlphabet == {"[", "^", "]", "1", "3", "x"}
AnswerTexts == UNION {[1..n -> AnswerAlphabet] : n \in 0..MaxAnswerLen}
ApiOutcomes ==
    {[kind |-> "raises", content |-> <<>>], [kind |-> "none", content |-> <<>>]}
    \cup [kind : {"text"}, content : AnswerTexts]

\* The evidence handed over by the ranker: ids 1..n in order
EvidenceList(n) == [k \in 1..n |-> [id |-> k, url |-> "u"]]
\* api: what the generation collaborator does when the call reaches it
SynthCalls ==
    [query : {<<>>, <<"q">>}, evidence_list : {EvidenceList(n) : n \in 0..MaxEvidence},
     api : ApiOutcomes]

InitSynth ==
    /\ synthCall \in SynthCalls
    /\ synthRet = NotCalled
    /\ ChunkIdle /\ RankIdle /\ FetchIdle /\ PipelineIdle /\ BackendIdle

\* One call of generate_answer, whatever the generation collaborator does
CallGenerateAnswer ==
    /\ synthCall /= Idle
    /\ synthRet = NotCalled
    /\ synthRet' = GenerateAnswer(synthCall.query, synthCall.evidence_list,
                                  synthCall.api)
    /\ UNCHANGED <<chunkCall, chunkRet, rankCall, rankRet, synthCall,
                   fetchCall, semaphore, tasks, fetchRet, resultsRet, pipeline, backendVars>>

NextSynth == CallGenerateAnswer

SpecSynth == InitSynth /\ [][NextSynth]_vars

\* C1: the used_citation_ids of the SynthesisResult are a subset of the ids of
\* the evidence_list passed in; a marker with an unknown id is dropped.
C1_CitationContainment ==
    synthRet.status = "returned" =>
        synthRet.used_citation_ids \subseteq
            {synthCall.evidence_list[k].id : k \in 1..Len(synthCall.evidence_list)}

\* C17: whenever the generation collaborator raises, generate_answer raises
\* nothing and returns the fixed fallback message with an empty
\* used_citation_ids set.
C17_GenerationFallback ==
    (/\ synthRet /= NotCalled
     /\ synthCall.query /= <<>> /\ synthCall.evidence_list /= <<>>
     /\ synthCall.api.kind = "raises") =>
        /\ synthRet.status = "returned"
        /\ synthRet.answer_markdown = <<FallbackAnswer>>
        /\ synthRet.used_citation_ids = {}

\* C17's case: the collaborator was called with evidence and raised
C17_Witness ==
    /\ synthRet.status = "returned"
    /\ synthCall.query /= <<>> /\ Len(synthCall.evidence_list) = MaxEvidence
    /\ synthCall.api.kind = "raises"
    /\ synthRet.answer_markdown = <<FallbackAnswer>>

\* ----------------------------------------------------------------- ranker

MaxDocs == 2
MaxBudget == 18
SentenceLen == 22

\* RankingService.__init__ defaults
DefaultIdealPassageLength == 1000
DefaultPassageOverlap == 200

\* _split_into_passages: the chunk dicts of chunk_text(doc.text, max_length,
\* overlap), each with the document's url (title, site and date ride along the
\* same way); <<>> for a document without text
SplitIntoPassages(doc, ideal_passage_length, overlap) ==
    IF doc.text = <<>> THEN <<>>
    ELSE LET r == ChunkText(doc.text, ideal_passage_length, overlap, TRUE,
                            DefaultMinChunkLength, NoInt)
         IN [i \in 1..Len(r.chunks) |-> [passage |-> r.chunks[i], url |-> doc.url]]

SplitRaises(doc, ideal_passage_length, overlap) ==
    /\ doc.text /= <<>>
    /\ ChunkText(doc.text, ideal_passage_length, overlap, TRUE,
                 DefaultMinChunkLength, NoInt).status /= "returned"

RECURSIVE AllPassages(_, _, _, _)
AllPassages(docs, d, ideal_passage_length, overlap) ==
    IF d > Len(docs) THEN <<>>
    ELSE SplitIntoPassages(docs[d], ideal_passage_length, overlap)
         \o AllPassages(docs, d + 1, ideal_passage_length, overlap)

\* Scores are fractions <<numerator, denominator>>, denominator > 0
ScoreGE(a, b) == a[1] * b[2] >= b[1] * a[2]
ScoreEQ(a, b) == a[1] * b[2] = b[1] * a[2]

\* Fallback: 1.0 - (i / len(passages)) for i in range(len(passages))
FallbackScoresIncreasing(n) == [k \in 1..n |-> <<k, n>>]
FallbackScores(n) == [k \in 1..n |-> <<n - (k - 1), n>>]

\* len(passage.passage): the passage is the chunk dict that chunk_text made,
\* and len() of a dict is the number of its keys
PassageLen(passage) == Cardinality(DOMAIN passage)

\* sort(key=lambda p: p.score, reverse=True): stable; e goes behind every
\* element whose score is >= its own
RECURSIVE InsertByScoreTiesFirst(_, _)
InsertByScoreTiesFirst(sorted, e) ==
    IF sorted = <<>> THEN <<e>>
    ELSE IF ScoreGE(Head(sorted).score, e.score) /\ ~ScoreEQ(Head(sorted).score, e.score)
         THEN <<Head(sorted)>> \o InsertByScoreTiesFirst(Tail(sorted), e)
    ELSE <<e>> \o sorted
RECURSIVE InsertByScore(_, _)
InsertByScore(sorted, e) ==
    IF sorted = <<>> THEN <<e>>
    ELSE IF ScoreGE(Head(sorted).score, e.score)
         THEN <<Head(sorted)>> \o InsertByScore(Tail(sorted), e)
    ELSE <<e>> \o sorted

RECURSIVE SortByScore(_, _, _)
SortByScore(scored, i, sorted) ==
    IF i > Len(scored) THEN sorted
    ELSE SortByScore(scored, i + 1, InsertByScore(sorted, scored[i]))

\* The selection loop. A passage that does not fit whole ends the loop; with
\* at least MinTruncateBudget left it is first truncated by
\* passage.passage[:remaining_budget - 3] + "...", which a dict does not
\* support: the slice raises.
MinTruncateBudget == 200

RECURSIVE SelectWithinBudget(_, _, _, _, _)
SelectWithinBudget(scored, i, max_context_chars, current_budget, selected) ==
    IF i > Len(scored) THEN [raised |-> FALSE, selected |-> selected]
    ELSE LET passage_length == PassageLen(scored[i].passage) IN
         IF current_budget + passage_length <= max_context_chars
         THEN SelectWithinBudget(scored, i + 1, max_context_chars,
                                 current_budget + passage_length,
                                 Append(selected, scored[i]))
         ELSE IF max_context_chars - current_budget >= MinTruncateBudget
              THEN [raised |-> TRUE, selected |-> <<>>]
              ELSE [raised |-> FALSE, selected |-> selected]

\* Re-assign IDs to ensure they're sequential
KeepDiscoveryIds(selected) == selected
ReassignIds(selected) == [k \in 1..Len(selected) |-> [selected[k] EXCEPT !.id = k]]

RankReturn(evidence) == [status |-> "returned", evidence |-> evidence]
RankRaise(exception) == [status |-> "raised", evidence |-> <<>>, exception |-> exception]

\* rank_documents. scores is what embedding and cosine similarity gave for the
\* passages in discovery order, or <<>> when the embedding call failed.
RankDocuments(svc, query, docs, max_context_chars, scores) ==
    IF query = <<>> \/ docs = <<>> THEN RankReturn(<<>>)
    ELSE IF \E d \in 1..Len(docs) :
                SplitRaises(docs[d], svc.ideal_passage_length, svc.overlap)
    THEN RankRaise("DocumentChunkError")
    ELSE
      LET all_passages == AllPassages(docs, 1, svc.ideal_passage_length, svc.overlap)
          n == Len(all_passages)
          similarity_scores == IF scores = <<>> THEN FallbackScores(n) ELSE scores
          scored_passages ==
              [i \in 1..n |-> [id |-> i, url |-> all_passages[i].url,
                               passage |-> all_passages[i].passage,
                               score |-> similarity_scores[i]]]
          picked == SelectWithinBudget(SortByScore(scored_passages, 1, <<>>), 1,
                                       max_context_chars, 0, <<>>)
      IN IF n = 0 THEN RankReturn(<<>>)
         ELSE IF picked.raised THEN RankRaise("TypeError")
         ELSE RankReturn(ReassignIds(picked.selected))

\* ---------------------------------------------- rank_documents as a call

TwoSentences == Sentence(SentenceLen) \o Sentence(SentenceLen)
DocTexts == {<<>>, <<"a", "a">>, <<"a", ".">>, TwoSentences}

\* The k-th document of a call has url k
DocLists ==
    UNION {{[k \in 1..n |-> [url |-> k, text |-> t[k]]] : t \in [1..n -> DocTexts]}
           : n \in 0..MaxDocs}

RankServices ==
    {[ideal_passage_length |-> DefaultIdealPassageLength,
      overlap |-> DefaultPassageOverlap],
     [ideal_passage_length |-> SentenceLen + 3, overlap |-> 5]}

\* embedding_fails: whether embed_texts raises during the call
RankCalls ==
    [svc : RankServices, query : {<<>>, <<"q">>}, docs : DocLists,
     max_context_chars : 0..MaxBudget, embedding_fails : BOOLEAN]

\* Cosine similarities in [-1, 1]
ScoreValues == {<<-1, 2>>, <<0, 1>>, <<1, 1>>}

NumPassages(call) ==
    Len(AllPassages(call.docs, 1, call.svc.ideal_passage_length, call.svc.overlap))

InitRank ==
    /\ rankCall \in RankCalls
    /\ rankRet = NotCalled
    /\ ChunkIdle /\ SynthIdle /\ FetchIdle /\ PipelineIdle /\ BackendIdle

\* One call of rank_documents whose embedding calls succeed
CallRankDocuments ==
    /\ rankCall /= Idle
    /\ rankRet = NotCalled
    /\ ~rankCall.embedding_fails
    /\ \E scores \in [1..NumPassages(rankCall) -> ScoreValues] :
           rankRet' = RankDocuments(rankCall.svc, rankCall.query, rankCall.docs,
                                    rankCall.max_context_chars, scores)
    /\ UNCHANGED <<chunkCall, chunkRet, rankCall, synthCall, synthRet,
                   fetchCall, semaphore, tasks, fetchRet, resultsRet, pipeline, backendVars>>

\* One call of rank_documents whose embedding fails
CallRankDocumentsEmbeddingFails ==
    /\ rankCall /= Idle
    /\ rankRet = NotCalled
    /\ rankCall.embedding_fails
    /\ rankRet' = RankDocuments(rankCall.svc, rankCall.query, rankCall.docs,
                                rankCall.max_context_chars, <<>>)
    /\ UNCHANGED <<chunkCall, chunkRet, rankCall, synthCall, synthRet,
                   fetchCall, semaphore, tasks, fetchRet, resultsRet, pipeline, backendVars>>

NextRank == CallRankDocuments \/ CallRankDocumentsEmbeddingFails

SpecRank == InitRank /\ [][NextRank]_vars

\* -------------------------------------------------------- ranker: claims

RankReturned == rankRet.status = "returned"

RECURSIVE SumOfPassageChars(_, _)
SumOfPassageChars(evidence, k) ==
    IF k > Len(evidence) THEN 0
    ELSE Len(evidence[k].passage.text) + SumOfPassageChars(evidence, k + 1)

\* C3: the sum of the lengths (in characters) of the passages of the returned
\* evidence is <= max_context_chars.
C3_BudgetRespected ==
    RankReturned =>
        SumOfPassageChars(rankRet.evidence, 1) <= rankCall.max_context_chars

\* C4: the evidence returned by rank_documents has the ids 1..N, the k-th
\* element having id k, whatever the order in which passages were discovered.
C4_DenseIds ==
    RankReturned =>
        \A k \in 1..Len(rankRet.evidence) : rankRet.evidence[k].id = k

\* C4's case: at least two passages returned and the first of them is not
\* the first one discovered (it comes from the second document)
C4_Witness ==
    /\ RankReturned
    /\ Len(rankRet.evidence) >= 2
    /\ rankRet.evidence[1].url = 2
    /\ rankRet.evidence[2].url = 1

\* Discovery order of two returned passages: document order, then chunk order
DiscoveredBefore(e, f) ==
    \/ e.url < f.url
    \/ e.url = f.url /\ e.passage.order < f.passage.order

\* C8: scores are non-increasing along the returned list, and passages with
\* equal scores keep their discovery order.
C8_RankingOrder ==
    RankReturned =>
        \A k \in 1..(Len(rankRet.evidence) - 1) :
            LET e == rankRet.evidence[k]
                f == rankRet.evidence[k + 1]
            IN /\ ScoreGE(e.score, f.score)
               /\ ScoreEQ(e.score, f.score) => DiscoveredBefore(e, f)

\* C8's case: three passages returned, the best one from the second document,
\* followed by two of equal score
C8_Witness ==
    /\ RankReturned
    /\ Len(rankRet.evidence) >= 3
    /\ rankRet.evidence[1].url = 2
    /\ ~ScoreEQ(rankRet.evidence[1].score, rankRet.evidence[2].score)
    /\ ScoreEQ(rankRet.evidence[2].score, rankRet.evidence[3].score)

C27_BudgetSelection ==
    RankReturned =>
        \A k \in 1..Len(rankRet.evidence) :
            LET remaining == rankCall.max_context_chars
                             - (SumOfPassageChars(rankRet.evidence, 1)
                                - SumOfPassageChars(rankRet.evidence, k))
                text == rankRet.evidence[k].passage.text
            IN  \/ Len(text) <= remaining
                \/ /\ k = Len(rankRet.evidence)
                   /\ remaining >= MinTruncateBudget
                   /\ Len(text) = remaining
                   /\ PySlice(text, remaining - 3, remaining) = <<".", ".", ".">>

\* ---------------------------------------------------------------- fetcher

MaxUrls == 2
MaxConcurrency == 2

MAX_REDIRECTS == 5

\* A URL as urlparse sees it: scheme, hostname, and whether it carries a
\* username or password
Url(scheme, hostname, userinfo) ==
    [scheme |-> scheme, hostname |-> hostname, userinfo |-> userinfo]

\* ipaddress.ip_address(hostname) succeeds on these, and is_global holds of
\* the last only (loopback and link-local are not global)
IpLiterals == {"127.0.0.1", "169.254.169.254", "8.8.8.8"}
GlobalIps == {"8.8.8.8"}

\* _is_url_allowed
IsUrlAllowedAnyHost(url) ==
    /\ url.scheme \in {"http", "https"}
    /\ url.hostname /= ""
IsUrlAllowed(url) ==
    /\ url.scheme \in {"http", "https"}
    /\ url.hostname /= "" /\ ~url.userinfo
    /\ url.hostname \in IpLiterals => url.hostname \in GlobalIps

\* if redirect_count > self.MAX_REDIRECTS
ExceedsRedirectCapLate(redirect_count) == redirect_count > MAX_REDIRECTS + 1
ExceedsRedirectCap(redirect_count) == redirect_count > MAX_REDIRECTS

\* async with self.semaphore: a permit can be taken while the value is > 0
CanAcquireAlways(value) == TRUE
CanAcquire(value) == value > 0

\* Leaving async with self.semaphore, by return or by exception: the call that
\* ends gives its permit back, and so does each enclosing call (held of them)
\* as the result is returned through it
ReleaseKeepsOne(value, held) == value + Max(0, held - 1)
Release(value, held) == value + held

\* The FetchedDoc of a call: url and extracted text (title, site_name and
\* fetch_ms do not matter here)
FetchedDoc(url, text) == [url |-> url, text |-> text]
NoDoc == [url |-> Url("", "", FALSE), text |-> <<>>]
PageText == <<"t">>

\* A _fetch_url coroutine of fetch_urls. pc: "waiting" for a permit at the
\* async with of the call for url (redirect_count-th redirect), "inflight" in
\* await self._client.get(url), "done" once the outermost call returned.
\* held: the permits its nested calls hold. outcome: how its last call ended.
NewTask(url) ==
    [pc |-> "waiting", url |-> url, redirect_count |-> 0, held |-> 0,
     doc |-> NoDoc, outcome |-> "none", raised |-> FALSE]

\* The innermost call returns fetched_doc and every enclosing call returns it
\* in turn, each leaving its async with
Finish(task, text, outcome) ==
    [task EXCEPT !.pc = "done", !.held = 0, !.doc = FetchedDoc(task.url, text),
                 !.outcome = outcome]

\* fetch_urls after gather(return_exceptions=True): the documents with text
AllOrNothing(results, i) ==
    IF \E k \in 1..Len(results) : results[k].raised \/ results[k].doc.text = <<>>
    THEN <<>>
    ELSE [k \in 1..Len(results) |-> results[k].doc]
RECURSIVE FilterFetched(_, _)
FilterFetched(results, i) ==
    IF i > Len(results) THEN <<>>
    ELSE (IF ~results[i].raised /\ results[i].doc.text /= <<>>
          THEN <<results[i].doc>> ELSE <<>>)
         \o FilterFetched(results, i + 1)

\* url_to_result[url].snippet: of the search results with this url, the last
\* one's snippet
SnippetOf(search_results, url) ==
    LET last == CHOOSE k \in 1..Len(search_results) :
                    /\ search_results[k].url = url
                    /\ \A j \in (k + 1)..Len(search_results) :
                           search_results[j].url /= url
    IN search_results[last].snippet

\* The loop over urls of fetch_search_results, from the i-th url on: a
\* snippet-built document for each url that no fetched document carries and
\* whose search result has a snippet
RECURSIVE SnippetDocs(_, _, _)
SnippetDocs(search_results, fetched_urls, i) ==
    IF i > Len(search_results) THEN <<>>
    ELSE LET url == search_results[i].url IN
         (IF url \notin fetched_urls /\ SnippetOf(search_results, url) /= <<>>
          THEN <<FetchedDoc(url, SnippetOf(search_results, url))>> ELSE <<>>)
         \o SnippetDocs(search_results, fetched_urls, i + 1)

\* fetch_search_results, given what fetch_urls returned for the urls
FetchSearchResults(search_results, fetched_docs, preserve_snippets) ==
    IF preserve_snippets
    THEN fetched_docs
         \o SnippetDocs(search_results,
                        {fetched_docs[k].url : k \in 1..Len(fetched_docs)}, 1)
    ELSE fetched_docs

\* ------------------------------------- fetch_search_results as a system

Urls ==
    {Url("http", "example.com", FALSE), Url("https", "8.8.8.8", FALSE),
     Url("http", "127.0.0.1", FALSE), Url("http", "169.254.169.254", FALSE),
     Url("https", "example.com", TRUE), Url("ftp", "example.com", FALSE)}

UrlLists == UNION {[1..n -> Urls] : n \in 0..MaxUrls}

\* The search results of a call: the urls, each with a snippet or without
Snippets == {<<>>, <<"s">>}
SearchResults(urls, snippets) ==
    [k \in 1..Len(urls) |-> [url |-> urls[k], snippet |-> snippets[k]]]

\* raise_for_status() raises on a 3xx response in current httpx and lets it
\* pass in older releases: a property of the build
FetchCalls ==
    [urls : UrlLists, max_concurrency : 1..MaxConcurrency,
     raise_on_redirect : BOOLEAN]
    \cup [urls : [1..1 -> Urls], max_concurrency : {MAX_REDIRECTS + 2},
          raise_on_redirect : {FALSE}]

InitFetch ==
    /\ fetchCall \in FetchCalls
    /\ semaphore = fetchCall.max_concurrency
    /\ tasks = [t \in 1..Len(fetchCall.urls) |-> NewTask(fetchCall.urls[t])]
    /\ fetchRet = NotCalled
    /\ resultsRet = NotCalled
    /\ ChunkIdle /\ RankIdle /\ SynthIdle /\ PipelineIdle /\ BackendIdle

FetchUnchanged == UNCHANGED <<chunkCall, chunkRet, rankCall, rankRet, synthCall,
                              synthRet, fetchCall, fetchRet, resultsRet, pipeline, backendVars>>

Waiting(t) == tasks[t].pc = "waiting" /\ CanAcquire(semaphore)

\* A call gets its permit and the SSRF guard rejects its URL
EnterBlocked(t) ==
    /\ Waiting(t)
    /\ ~IsUrlAllowed(tasks[t].url)
    /\ tasks' = [tasks EXCEPT ![t] = Finish(@, <<>>, "blocked")]
    /\ semaphore' = Release(semaphore, tasks[t].held)
    /\ FetchUnchanged

\* A call gets its permit with more than MAX_REDIRECTS redirects behind it
EnterRedirectCap(t) ==
    /\ Waiting(t)
    /\ IsUrlAllowed(tasks[t].url)
    /\ ExceedsRedirectCap(tasks[t].redirect_count)
    /\ tasks' = [tasks EXCEPT ![t] = Finish(@, <<>>, "redirect_cap")]
    /\ semaphore' = Release(semaphore, tasks[t].held)
    /\ FetchUnchanged

\* A call gets its permit and sends its request
EnterAndRequest(t) ==
    /\ Waiting(t)
    /\ IsUrlAllowed(tasks[t].url)
    /\ ~ExceedsRedirectCap(tasks[t].redirect_count)
    /\ tasks' = [tasks EXCEPT ![t].pc = "inflight", ![t].held = @ + 1]
    /\ semaphore' = semaphore - 1
    /\ FetchUnchanged

\* The request fails in the network or times out (httpx.RequestError)
RespondRequestError(t) ==
    /\ tasks[t].pc = "inflight"
    /\ \E outcome \in {"network_error", "timeout"} :
           tasks' = [tasks EXCEPT ![t] = Finish(@, <<>>, outcome)]
    /\ semaphore' = Release(semaphore, tasks[t].held)
    /\ FetchUnchanged

\* raise_for_status() raises: a 4xx or 5xx response, or a 3xx one where httpx
\* raises on redirects
RespondHttpError(t) ==
    /\ tasks[t].pc = "inflight"
    /\ tasks' = [tasks EXCEPT ![t] = Finish(@, <<>>, "http_error")]
    /\ semaphore' = Release(semaphore, tasks[t].held)
    /\ FetchUnchanged

\* A 3xx response with a Location header, followed by hand: the nested call
\* for the resolved target starts while this call keeps its permit
RespondRedirect(t) ==
    /\ tasks[t].pc = "inflight"
    /\ ~fetchCall.raise_on_redirect
    /\ \E new_url \in Urls :
           tasks' = [tasks EXCEPT ![t].pc = "waiting", ![t].url = new_url,
                                  ![t].redirect_count = @ + 1]
    /\ UNCHANGED semaphore
    /\ FetchUnchanged

\* A response whose body is read (2xx, or a 3xx without Location that passed
\* raise_for_status): extraction gives text, gives nothing, or raises
RespondPage(t) ==
    /\ tasks[t].pc = "inflight"
    /\ \/ tasks' = [tasks EXCEPT ![t] = Finish(@, PageText, "ok")]
       \/ tasks' = [tasks EXCEPT ![t] = Finish(@, <<>>, "empty_page")]
       \/ tasks' = [tasks EXCEPT ![t] = Finish(@, <<>>, "extraction_error")]
    /\ semaphore' = Release(semaphore, tasks[t].held)
    /\ FetchUnchanged

\* gather has every result: fetch_urls returns the documents with text
FetchUrlsReturn ==
    /\ fetchCall /= Idle
    /\ fetchRet = NotCalled
    /\ \A t \in DOMAIN tasks : tasks[t].pc = "done"
    /\ fetchRet' = [status |-> "returned", docs |-> FilterFetched(tasks, 1)]
    /\ UNCHANGED <<chunkCall, chunkRet, rankCall, rankRet, synthCall, synthRet,
                   fetchCall, semaphore, tasks, resultsRet, pipeline, backendVars>>

\* fetch_urls has returned: fetch_search_results reads preserve_snippets and
\* the snippets of its search results, adds the snippet-built documents and
\* returns
FetchSearchResultsReturn ==
    /\ fetchRet.status = "returned"
    /\ resultsRet = NotCalled
    /\ \E snippets \in [1..Len(fetchCall.urls) -> Snippets],
          preserve_snippets \in BOOLEAN :
           LET search_results == SearchResults(fetchCall.urls, snippets) IN
           resultsRet' = [status |-> "returned",
                          search_results |-> search_results,
                          preserve_snippets |-> preserve_snippets,
                          docs |-> FetchSearchResults(search_results, fetchRet.docs,
                                                      preserve_snippets)]
    /\ UNCHANGED <<chunkCall, chunkRet, rankCall, rankRet, synthCall, synthRet,
                   fetchCall, semaphore, tasks, fetchRet, pipeline, backendVars>>

NextFetch ==
    \/ \E t \in DOMAIN tasks : EnterBlocked(t)
    \/ \E t \in DOMAIN tasks : EnterRedirectCap(t)
    \/ \E t \in DOMAIN tasks : EnterAndRequest(t)
    \/ \E t \in DOMAIN tasks : RespondRequestError(t)
    \/ \E t \in DOMAIN tasks : RespondHttpError(t)
    \/ \E t \in DOMAIN tasks : RespondRedirect(t)
    \/ \E t \in DOMAIN tasks : RespondPage(t)
    \/ FetchUrlsReturn

SpecFetch == InitFetch /\ [][NextFetch]_vars

\* fetch_search_results: fetch_urls on the urls of the search results, then
\* the snippet-built documents
NextFetchResults == NextFetch \/ FetchSearchResultsReturn

SpecFetchResults == InitFetch /\ [][NextFetchResults]_vars

\* ------------------------------------------------------- fetcher: claims

\* What the SSRF guard is to let through: http or https, no embedded
\* credentials, and a literal-IP host only when it is globally routable
SsrfSafe(url) ==
    /\ (url.scheme = "http" \/ url.scheme = "https")
    /\ ~url.userinfo
    /\ url.hostname \notin {"127.0.0.1", "169.254.169.254"}

\* C5: no request is ever in flight to a URL that fails the SSRF guard, be it
\* the initial URL or a redirect target, and a rejected URL resolves to a
\* document with empty text.
C5_SsrfGuard ==
    \A t \in DOMAIN tasks :
        /\ tasks[t].pc = "inflight" => SsrfSafe(tasks[t].url)
        /\ (tasks[t].pc = "done" /\ ~SsrfSafe(tasks[t].doc.url)) =>
               tasks[t].doc.text = <<>>

\* C5's case: a redirect to the metadata address is rejected before a request
C5_Witness ==
    \E t \in DOMAIN tasks :
        /\ tasks[t].pc = "done"
        /\ tasks[t].outcome = "blocked"
        /\ tasks[t].redirect_count >= 1
        /\ tasks[t].doc = FetchedDoc(Url("http", "169.254.169.254", FALSE), <<>>)

InFlight == {t \in DOMAIN tasks : tasks[t].pc = "inflight"}

\* C6: the number of HTTP requests in flight at the same time never exceeds
\* max_concurrency.
C6_BoundedInFlight == Cardinality(InFlight) <= fetchCall.max_concurrency

\* C6's case: every permit is in use by a request in flight while another
\* task waits for one
C6_Witness ==
    /\ Cardinality(InFlight) = fetchCall.max_concurrency
    /\ semaphore = 0
    /\ \E t \in DOMAIN tasks : tasks[t].pc = "waiting" /\ tasks[t].held = 0

FetchFailures == {"network_error", "timeout", "http_error", "extraction_error"}
WithText == {t \in DOMAIN tasks : tasks[t].doc.text /= <<>>}

\* C7: a fetch that ends in a network error, timeout, HTTP error status or
\* extraction failure resolves to an empty-text document and raises nothing,
\* and the list fetch_urls returns holds the document of every URL whose own
\* fetch produced text.
C7_FailureIsolation ==
    /\ \A t \in DOMAIN tasks :
           tasks[t].pc = "done" =>
               /\ ~tasks[t].raised
               /\ tasks[t].outcome \in FetchFailures => tasks[t].doc.text = <<>>
    /\ fetchRet.status = "returned" =>
           /\ Len(fetchRet.docs) = Cardinality(WithText)
           /\ \A t \in WithText :
                  \E k \in 1..Len(fetchRet.docs) : fetchRet.docs[k] = tasks[t].doc

\* C7's case: one fetch timed out, its sibling's document is returned
C7_Witness ==
    /\ fetchRet.status = "returned"
    /\ \E t \in DOMAIN tasks : tasks[t].outcome = "timeout"
    /\ WithText /= {}
    /\ Len(fetchRet.docs) = 1

\* The documents fetch_search_results built from snippets: those it appended
\* to what fetch_urls returned
SyntheticDocs == SubSeq(resultsRet.docs, Len(fetchRet.docs) + 1, Len(resultsRet.docs))
SyntheticUrls == {SyntheticDocs[j].url : j \in 1..Len(SyntheticDocs)}

\* The url occurs once among the search results
OccursOnce(k) ==
    \A j \in 1..Len(fetchCall.urls) : fetchCall.urls[j] = fetchCall.urls[k] => j = k

C19_RedirectCap ==
    \A t \in DOMAIN tasks :
        /\ tasks[t].pc = "inflight" => tasks[t].redirect_count <= 5
        /\ tasks[t].redirect_count > 5 =>
               /\ tasks[t].pc \in {"waiting", "done"}
               /\ tasks[t].pc = "done" =>
                      tasks[t].doc.text = <<>> /\ ~tasks[t].raised

\* C19's case: the sixth 3xx response in a row, the fetch resolved without text
C19_Witness ==
    \E t \in DOMAIN tasks :
        /\ tasks[t].pc = "done"
        /\ tasks[t].outcome = "redirect_cap"
        /\ tasks[t].redirect_count = 6
        /\ tasks[t].doc.text = <<>>

\* C24: every permit a fetch acquired is released when it completes, whatever
\* its outcome: a finished task holds no permit, and when fetch_urls returns
\* the number of available permits equals max_concurrency again.
C24_PermitsReleased ==
    /\ \A t \in DOMAIN tasks : tasks[t].pc = "done" => tasks[t].held = 0
    /\ fetchRet.status = "returned" => semaphore = fetchCall.max_concurrency

\* C24's case: fetch_urls returned after one fetch timed out behind a followed
\* redirect (two permits held by its calls) and another one was blocked by the
\* SSRF guard
C24_Witness ==
    /\ fetchRet.status = "returned"
    /\ semaphore = fetchCall.max_concurrency
    /\ \E t \in DOMAIN tasks :
           tasks[t].outcome = "timeout" /\ tasks[t].redirect_count >= 1
    /\ \E t \in DOMAIN tasks : tasks[t].outcome = "blocked"

\* Fair scheduling of the event loop: as long as some coroutine can take a step
\* (a permit is free for a waiting call, or a request is in flight and so
\* completes or times out), a step is eventually taken. Every step brings a
\* task closer to its end, so fairness on the whole suffices.
SpecFetchFair == InitFetch /\ [][NextFetch]_vars /\ WF_vars(NextFetch)

DefaultMaxContextChars == 20000

\* RankingService(): the service the endpoint builds
DefaultRankingService ==
    [ideal_passage_length |-> DefaultIdealPassageLength,
     overlap |-> DefaultPassageOverlap]

\* The request at the start of the handler. phases: the phases awaited so far;
\* timeouts: those of them that ended in asyncio.TimeoutError
NewRequest(query, include_snippets) ==
    [pc |-> "search", query |-> query, include_snippets |-> include_snippets,
     phases |-> <<>>, timeouts |-> {}, search_results |-> <<>>,
     fetched_docs |-> <<>>, ranked_evidence |-> <<>>,
     synthesis_result |-> NotCalled, response |-> NotCalled]

\* The handler ends: an HTTPException (or an unhandled exception, 500), or the
\* WebSearchAnswerResponse (200)
Respond(p, status_code, detail, citations) ==
    [p EXCEPT !.pc = "done",
              !.response = [status |-> "responded", status_code |-> status_code,
                            detail |-> detail, citations |-> citations]]

\* A phase has been awaited
Awaited(p, phase) == [p EXCEPT !.phases = Append(@, phase)]
TimedOut(p, phase) ==
    [p EXCEPT !.phases = Append(@, phase), !.timeouts = @ \cup {phase}]

\* After the search phase: no result is a 422
AfterSearch(p, search_results) ==
    IF search_results = <<>>
    THEN Respond(p, 422, "No search results found for the query.", <<>>)
    ELSE [p EXCEPT !.pc = "fetch", !.search_results = search_results]

\* After the fetch phase: no document is a 422 unless include_snippets is set
AfterFetch(p, fetched_docs) ==
    IF fetched_docs = <<>> /\ ~p.include_snippets
    THEN Respond(p, 422, "Failed to fetch content from search results.", <<>>)
    ELSE [p EXCEPT !.pc = "rank", !.fetched_docs = fetched_docs]

\* After the ranking phase: an exception of rank_documents leaves the handler,
\* no evidence is a 422
AfterRank(p, ranked) ==
    IF ranked.status = "raised"
    THEN Respond(p, 500, "Internal Server Error", <<>>)
    ELSE IF ranked.evidence = <<>>
    THEN Respond(p, 422, "No relevant evidence found for the query.", <<>>)
    ELSE [p EXCEPT !.pc = "synthesize", !.ranked_evidence = ranked.evidence]

\* The evidence whose id is among the used citation ids, in evidence order
RECURSIVE CitedEvidence(_, _, _)
CitedEvidence(ranked_evidence, used_citation_ids, i) ==
    IF i > Len(ranked_evidence) THEN <<>>
    ELSE (IF ranked_evidence[i].id \in used_citation_ids
          THEN <<ranked_evidence[i]>> ELSE <<>>)
         \o CitedEvidence(ranked_evidence, used_citation_ids, i + 1)

\* After the synthesis phase. An empty used_citation_ids is a 422. A Citation
\* is built for each cited evidence with snippet=evidence.passage; the passage
\* is the chunk dict _split_into_passages stored where the Citation model
\* declares snippet: Optional[str], so pydantic raises a ValidationError, which
\* leaves the handler.
AfterSynthesis(p, synthesis_result) ==
    LET q == [p EXCEPT !.synthesis_result = synthesis_result]
        cited == CitedEvidence(p.ranked_evidence,
                               synthesis_result.used_citation_ids, 1)
    IN IF synthesis_result.used_citation_ids = {}
       THEN Respond(q, 422,
                    "No evidence-based answer could be produced within constraints.",
                    <<>>)
       ELSE IF cited /= <<>>
       THEN Respond(q, 500, "Internal Server Error", <<>>)
       ELSE Respond(q, 200, "", <<>>)

\* ------------------------------------------ web_search_answer as a system

\* What the search provider can return
PipelineUrls == {Url("http", "example.com", FALSE), Url("https", "8.8.8.8", FALSE)}
PipelineSnippets == {<<>>, <<"s", ".">>}
PipelineSearchResults ==
    UNION {[1..n -> [url : PipelineUrls, snippet : PipelineSnippets]] : n \in 0..MaxUrls}

\* What a page can give: no text, text without a sentence end, a sentence
PipelinePageTexts == {<<>>, <<"a", "a">>, <<"a", ".">>}

\* What fetch_urls can return for the search results: each live fetch ends
\* with a page text or without one
LiveDocs(search_results) ==
    {FilterFetched([k \in 1..Len(search_results) |->
                       [raised |-> FALSE,
                        doc |-> FetchedDoc(search_results[k].url, texts[k])]], 1)
        : texts \in [1..Len(search_results) -> PipelinePageTexts]}

\* What the generation collaborator can do: raise, answer nothing, answer
\* without marker, cite evidence 1, cite an id no evidence has
Marker(digit) == <<"[", "^", digit, "]">>
PipelineApiOutcomes ==
    {[kind |-> "raises", content |-> <<>>]}
    \cup [kind : {"text"},
          content : {<<"x">>, Marker("1"), Marker("3"), Marker("1") \o Marker("3")}]

InitPipeline ==
    /\ pipeline \in {NewRequest(<<"q">>, include_snippets) : include_snippets \in BOOLEAN}
    /\ ChunkIdle /\ RankIdle /\ SynthIdle /\ FetchIdle /\ BackendIdle

PipelineUnchanged ==
    UNCHANGED <<chunkCall, chunkRet, rankCall, rankRet, synthCall, synthRet,
                fetchCall, semaphore, tasks, fetchRet, resultsRet,
                backendVars>>

\* 1. Search phase
SearchTimesOut ==
    /\ pipeline /= Idle /\ pipeline.pc = "search"
    /\ pipeline' = Respond(TimedOut(pipeline, "search"), 504,
                           "Search phase timed out.", <<>>)
    /\ PipelineUnchanged

SearchReturns ==
    /\ pipeline /= Idle /\ pipeline.pc = "search"
    /\ \E search_results \in PipelineSearchResults :
           pipeline' = AfterSearch(Awaited(pipeline, "search"), search_results)
    /\ PipelineUnchanged

\* 2. Fetch phase
FetchTimesOut ==
    /\ pipeline /= Idle /\ pipeline.pc = "fetch"
    /\ pipeline' = AfterFetch(TimedOut(pipeline, "fetch"), <<>>)
    /\ PipelineUnchanged

FetchReturns ==
    /\ pipeline /= Idle /\ pipeline.pc = "fetch"
    /\ \E live \in LiveDocs(pipeline.search_results) :
           pipeline' = AfterFetch(Awaited(pipeline, "fetch"),
                                  FetchSearchResults(pipeline.search_results, live,
                                                     pipeline.include_snippets))
    /\ PipelineUnchanged

\* 3. Ranking phase
RankTimesOut ==
    /\ pipeline /= Idle /\ pipeline.pc = "rank"
    /\ pipeline' = Respond(TimedOut(pipeline, "rank"), 504,
                           "Ranking phase timed out.", <<>>)
    /\ PipelineUnchanged

RankReturns ==
    /\ pipeline /= Idle /\ pipeline.pc = "rank"
    /\ LET n == Len(AllPassages(pipeline.fetched_docs, 1,
                                DefaultRankingService.ideal_passage_length,
                                DefaultRankingService.overlap))
       IN \E scores \in [1..n -> ScoreValues] \cup {<<>>} :
              pipeline' = AfterRank(Awaited(pipeline, "rank"),
                                    RankDocuments(DefaultRankingService,
                                                  pipeline.query,
                                                  pipeline.fetched_docs,
                                                  DefaultMaxContextChars, scores))
    /\ PipelineUnchanged

\* 4. Synthesis phase
SynthesisTimesOut ==
    /\ pipeline /= Idle /\ pipeline.pc = "synthesize"
    /\ pipeline' = Respond(TimedOut(pipeline, "synthesize"), 504,
                           "Synthesis phase timed out.", <<>>)
    /\ PipelineUnchanged

SynthesisReturns ==
    /\ pipeline /= Idle /\ pipeline.pc = "synthesize"
    /\ \E api \in PipelineApiOutcomes :
           pipeline' = AfterSynthesis(Awaited(pipeline, "synthesize"),
                                      GenerateAnswer(pipeline.query,
                                                     pipeline.ranked_evidence, api))
    /\ PipelineUnchanged

NextPipeline ==
    \/ SearchTimesOut
    \/ SearchReturns
    \/ FetchTimesOut
    \/ FetchReturns
    \/ RankTimesOut
    \/ RankReturns
    \/ SynthesisTimesOut
    \/ SynthesisReturns

SpecPipeline == InitPipeline /\ [][NextPipeline]_vars

\* ------------------------------------------------------ pipeline: claims

Responded == pipeline.response.status = "responded"
PhasesAwaited == {pipeline.phases[i] : i \in 1..Len(pipeline.phases)}

\* C14: web_search_answer responds successfully only when at least one
\* citation marker of the answer refers to an evidence id supplied to
\* synthesis, so a successful response carries at least one citation.
C14_CitedOrRejected ==
    (Responded /\ pipeline.response.status_code = 200) =>
        /\ \E k \in 1..Len(pipeline.ranked_evidence) :
               pipeline.ranked_evidence[k].id
                   \in pipeline.synthesis_result.used_citation_ids
        /\ pipeline.response.citations /= <<>>

\* C15: a timeout of the search phase or of the rank phase fails the request
\* without running a later phase; a timeout of the fetch phase does not fail
\* the request by itself: the pipeline proceeds to the ranking phase with zero
\* documents.
C15_PhaseTimeouts ==
    /\ "search" \in pipeline.timeouts =>
           /\ pipeline.phases = <<"search">>
           /\ Responded /\ pipeline.response.status_code = 504
    /\ "rank" \in pipeline.timeouts =>
           /\ pipeline.phases = <<"search", "fetch", "rank">>
           /\ Responded /\ pipeline.response.status_code = 504
    /\ "fetch" \in pipeline.timeouts =>
           /\ pipeline.fetched_docs = <<>>
           /\ pipeline.pc = "rank" \/ "rank" \in PhasesAwaited

\* ----------------------------------------------------------- vector store

MaxRetries == 3
MaxItems == 2

\* tenacity's stop_after_attempt(max_attempt_number): after a failed attempt,
\* stop (and, with reraise=True, raise its exception) once
\* attempt_number >= max_attempt_number; attempt_number starts at 1
StopAfterAttempt(attempt_number, max_attempt_number) ==
    attempt_number >= max_attempt_number

\* What self.pc.describe_index can do: raise, return None (as the test doubles
\* do for a missing index), or return a description whose dimension is the
\* expected one or another one
DescribeOutcomes == {"raises", "absent", "present", "other_dimension"}

\* The value of index_desc in create_index: _get_index_description catches
\* every exception of describe_index and returns None
IndexDescription(outcome) ==
    IF outcome \in {"raises", "absent"} THEN None ELSE outcome

\* The checks of a method body before it calls self.index: the exception they
\* raise, or None
UpsertVectorsError(call, index) ==
    IF call.n_vectors /= call.n_ids THEN "ValueError"
    ELSE IF call.n_vectors > 0 /\ ~call.dimension_ok THEN "ValueError"
    ELSE IF ~index THEN "RuntimeError"
    ELSE None

UpsertError(call, index) ==
    IF call.n_ids /= call.n_vectors THEN "ValueError"
    ELSE IF call.metadata /= NoInt /\ call.metadata[1] /= call.n_ids
         THEN "ValueError"
    ELSE None

QueryError(call, index) ==
    IF ~index THEN "RuntimeError"
    ELSE IF ~call.dimension_ok THEN "ValueError"
    ELSE None

BodyError(call, index) ==
    IF call.op = "upsert_vectors" THEN UpsertVectorsError(call, index)
    ELSE IF call.op = "upsert" THEN UpsertError(call, index)
    ELSE QueryError(call, index)

\* Where an attempt of the called method starts: create_index describes the
\* index first, and so does upsert through create_index() while self.index is
\* None; otherwise the body's checks come first
AttemptStart(op, index) ==
    IF op = "create_index" \/ (op = "upsert" /\ ~index) THEN "describe"
    ELSE "body"

\* The client as constructed (pinecone_index given or not) at the first
\* attempt of the call
NewClient(call) ==
    [pc |-> AttemptStart(call.op, call.index_given),
     attempt_number |-> 1, create_attempt_number |-> 1,
     index |-> call.index_given,
     describe_calls |-> 0, describe_failures |-> 0,
     create_calls |-> 0, created |-> 0,
     store_calls |-> 0, store_failures |-> 0, written |-> 0,
     exception |-> None]

\* @pinecone_retry around the called method: an attempt ended with exception e
AttemptFailed(v, call, e) ==
    IF StopAfterAttempt(v.attempt_number, call.vector_db_max_retries)
    THEN [v EXCEPT !.pc = "raised", !.exception = e]
    ELSE [v EXCEPT !.pc = AttemptStart(call.op, v.index),
                   !.attempt_number = @ + 1, !.create_attempt_number = 1]

\* @pinecone_retry around create_index: an attempt of it ended with exception
\* e; once it stops, the exception reaches the caller (upsert, whose attempt
\* fails, or the user)
CreateIndexFailed(v, call, e) ==
    IF StopAfterAttempt(v.create_attempt_number, call.vector_db_max_retries)
    THEN IF call.op = "create_index"
         THEN [v EXCEPT !.pc = "raised", !.exception = e]
         ELSE AttemptFailed(v, call, e)
    ELSE [v EXCEPT !.pc = "describe", !.create_attempt_number = @ + 1]

\* create_index returns with self.index set
CreateIndexReturns(v, call) ==
    [v EXCEPT !.index = TRUE,
              !.pc = IF call.op = "create_index" THEN "returned" ELSE "body"]

\* ------------------------------------------- VectorDBClient as a system

\* One call of a VectorDBClient method: ids, vectors and metadata by their
\* lengths (metadata None as NoInt), whether every vector has the client's
\* dimension, whether the client was built with pinecone_index, and
\* settings.vector_db_max_retries as the retry decorator read it
VdbCall(op, max_retries, n_ids, n_vectors, metadata, dimension_ok, index_given) ==
    [op |-> op, vector_db_max_retries |-> max_retries, n_ids |-> n_ids,
     n_vectors |-> n_vectors, metadata |-> metadata,
     dimension_ok |-> dimension_ok, index_given |-> index_given]

UpsertVectorsCalls ==
    {VdbCall("upsert_vectors", r, i, v, NoInt, d, x) :
        r \in 0..MaxRetries, i \in 0..MaxItems, v \in 0..MaxItems,
        d \in BOOLEAN, x \in BOOLEAN}

QueryCalls ==
    {VdbCall("query", r, 0, 1, NoInt, d, x) :
        r \in 0..MaxRetries, d \in BOOLEAN, x \in BOOLEAN}

UpsertCalls ==
    {VdbCall("upsert", r, i, v, m, TRUE, x) :
        r \in 0..MaxRetries, i \in 0..MaxItems, v \in 0..MaxItems,
        m \in {NoInt} \cup {SomeInt(n) : n \in 0..MaxItems}, x \in BOOLEAN}

CreateIndexCalls ==
    {VdbCall("create_index", r, 0, 0, NoInt, TRUE, x) :
        r \in 0..MaxRetries, x \in BOOLEAN}

VdbCalls == UpsertVectorsCalls \cup QueryCalls \cup UpsertCalls
            \cup CreateIndexCalls

InitVectorDB ==
    /\ vdbCall \in VdbCalls
    /\ vdb = NewClient(vdbCall)
    /\ RetrievalIdle /\ EmbedIdle /\ CacheIdle /\ JobsIdle

VectorDBUnchanged ==
    UNCHANGED <<retrievalVars, vdbCall, embedVars, cacheVars, jobVars>>

\* A check of the method body raises before self.index is called
RejectArguments ==
    /\ vdbCall /= Idle /\ vdb.pc = "body"
    /\ BodyError(vdbCall, vdb.index) /= None
    /\ vdb' = AttemptFailed(vdb, vdbCall, BodyError(vdbCall, vdb.index))
    /\ VectorDBUnchanged

\* self.index.upsert(...) or self.index.query(...): it returns, or it raises
StoreCall ==
    /\ vdbCall /= Idle /\ vdb.pc = "body"
    /\ BodyError(vdbCall, vdb.index) = None
    /\ \E ok \in BOOLEAN :
           vdb' = IF ok
                  THEN [vdb EXCEPT !.pc = "returned", !.store_calls = @ + 1,
                                   !.written = IF vdbCall.op = "query" THEN @
                                               ELSE @ + vdbCall.n_vectors]
                  ELSE AttemptFailed([vdb EXCEPT !.store_calls = @ + 1,
                                                 !.store_failures = @ + 1],
                                     vdbCall, "PineconeException")
    /\ VectorDBUnchanged

\* index_desc = self._get_index_description(idx_name) and what create_index
\* does with it short of creating the index
DescribeIndex ==
    /\ vdbCall /= Idle /\ vdb.pc = "describe"
    /\ \E outcome \in DescribeOutcomes :
           LET v == [vdb EXCEPT !.describe_calls = @ + 1,
                                !.describe_failures =
                                    IF outcome = "raises" THEN @ + 1 ELSE @]
           IN vdb' = IF IndexDescription(outcome) = None
                     THEN [v EXCEPT !.pc = "create"]
                     ELSE IF outcome = "other_dimension"
                          THEN CreateIndexFailed(v, vdbCall, "ValueError")
                          ELSE CreateIndexReturns(v, vdbCall)
    /\ VectorDBUnchanged

\* self.pc.create_index(...): it returns, or it raises
PcCreateIndex ==
    /\ vdbCall /= Idle /\ vdb.pc = "create"
    /\ \E ok \in BOOLEAN :
           vdb' = IF ok
                  THEN CreateIndexReturns([vdb EXCEPT !.create_calls = @ + 1,
                                                      !.created = @ + 1],
                                          vdbCall)
                  ELSE CreateIndexFailed([vdb EXCEPT !.create_calls = @ + 1],
                                         vdbCall, "PineconeException")
    /\ VectorDBUnchanged

NextVectorDB == RejectArguments \/ StoreCall \/ DescribeIndex \/ PcCreateIndex

SpecVectorDB == InitVectorDB /\ [][NextVectorDB]_vars

\* -------------------------------------------------- vector store: claims

\* C21: when the underlying vector-store call fails on every attempt,
\* upsert_vectors and query invoke it exactly vector_db_max_retries + 1 times
\* and then re-raise the error; after fewer failures than that they do not
\* give up.
C21_RetriesExhausted ==
    (/\ vdbCall.op \in {"upsert_vectors", "query"}
     /\ vdb.pc = "raised" /\ vdb.exception = "PineconeException") =>
        /\ vdb.store_failures = vdb.store_calls
        /\ vdb.store_calls = vdbCall.vector_db_max_retries + 1

\* ids and vectors (and metadata, when given) of an upsert differ in length
LengthMismatch ==
    /\ vdbCall.op \in {"upsert_vectors", "upsert"}
    /\ \/ vdbCall.n_ids /= vdbCall.n_vectors
       \/ vdbCall.metadata /= NoInt /\ vdbCall.metadata[1] /= vdbCall.n_ids

\* C23: on behalf of an upsert whose lengths do not match, no call is made to
\* the vector-store collaborator and nothing is written; the upsert does not
\* return normally.
C23_LengthsValidatedFirst ==
    LengthMismatch =>
        /\ vdb.describe_calls = 0 /\ vdb.create_calls = 0
        /\ vdb.store_calls = 0
        /\ vdb.created = 0 /\ vdb.written = 0
        /\ vdb.pc /= "returned"

\* C28: create_index does not take a failing describe call for a missing
\* index: while every describe call so far has failed it does not ask the
\* vector store to create the index, and it does not return normally; an
\* index is created at most once.
C28_DescribeFailureIsNotAbsence ==
    vdbCall.op = "create_index" =>
        /\ (vdb.describe_calls > 0
            /\ vdb.describe_failures = vdb.describe_calls) =>
               /\ vdb.create_calls = 0
               /\ vdb.pc /= "returned"
        /\ vdb.created <= 1

\* ------------------------------------------------------ embed_texts_batched

MaxTexts == 3
MaxBatchSize == 2
MaxDim == 2

\* for attempt in range(4)
EmbedAttempts == 4

\* batch = texts[i:i+batch_size], the texts by their indexes
Batch(n_texts, i, batch_size) ==
    [k \in 1..(Min(i + batch_size, n_texts) - i) |-> i + k - 1]

\* any(len(vec) != expected_dim for vec in vectors)
DimensionMismatchFirst(vectors, expected_dim) ==
    vectors /= <<>> /\ vectors[1].dim /= expected_dim
DimensionMismatch(vectors, expected_dim) ==
    \E k \in 1..Len(vectors) : vectors[k].dim /= expected_dim

\* except Exception: sleep and go to the next attempt if attempt < 3,
\* otherwise raise
EmbedAttemptFailed(run, e) ==
    IF run.attempt < EmbedAttempts - 1
    THEN [run EXCEPT !.attempt = @ + 1]
    ELSE [run EXCEPT !.pc = "raised", !.exception = e]

\* all_vectors.extend(vectors); break: the loop goes on with the next batch
EmbedBatchDone(run, vectors, batch_size) ==
    [run EXCEPT !.all_vectors = @ \o vectors, !.i = @ + batch_size,
                !.attempt = 0]

EmbedCalls ==
    [n_texts : 0..MaxTexts, embed_batch_size : 1..MaxBatchSize,
     embedding_dimension : 1..MaxDim]

InitEmbed ==
    /\ embedCall \in EmbedCalls
    /\ embedRun = [pc |-> "running", i |-> 0, attempt |-> 0,
                   all_vectors |-> <<>>, mismatches |-> 0, exception |-> None]
    /\ RetrievalIdle /\ VectorDBIdle /\ CacheIdle /\ JobsIdle

EmbedUnchanged ==
    UNCHANGED <<retrievalVars, vectorDBVars, embedCall, cacheVars, jobVars>>

EmbedRunning ==
    /\ embedCall /= Idle /\ embedRun.pc = "running"
    /\ embedRun.i < embedCall.n_texts

\* embed_texts(batch, model=model) returns one vector per text, each of some
\* dimension; the dimension check accepts them or raises ValueError
EmbedTextsReturns ==
    /\ EmbedRunning
    /\ LET batch == Batch(embedCall.n_texts, embedRun.i,
                          embedCall.embed_batch_size)
       IN \E dims \in [1..Len(batch) -> 1..MaxDim] :
              LET vectors == [k \in 1..Len(batch) |->
                                 [text |-> batch[k], dim |-> dims[k]]]
              IN embedRun' =
                     IF DimensionMismatch(vectors,
                                          embedCall.embedding_dimension)
                     THEN EmbedAttemptFailed(
                              [embedRun EXCEPT !.mismatches = @ + 1],
                              "ValueError")
                     ELSE EmbedBatchDone(embedRun, vectors,
                                         embedCall.embed_batch_size)
    /\ EmbedUnchanged

\* embed_texts(batch, model=model) raises (authentication, rate limit after
\* its own retries, connection or API error)
EmbedTextsRaises ==
    /\ EmbedRunning
    /\ embedRun' = EmbedAttemptFailed(embedRun, "APIError")
    /\ EmbedUnchanged

\* The loop over the batches is over: return all_vectors
EmbedReturn ==
    /\ embedCall /= Idle /\ embedRun.pc = "running"
    /\ embedRun.i >= embedCall.n_texts
    /\ embedRun' = [embedRun EXCEPT !.pc = "returned"]
    /\ EmbedUnchanged

NextEmbed == EmbedTextsReturns \/ EmbedTextsRaises \/ EmbedReturn

SpecEmbed == InitEmbed /\ [][NextEmbed]_vars

\* ------------------------------------------- embed_texts_batched: claims

\* C22: embed_texts_batched never holds or returns a vector whose length is
\* not the expected dimension; a batch is attempted at most 4 times and the
\* error is raised at the fourth failure; a failed attempt adds no vector to
\* the result; the result has the vectors of the batches in input order, one
\* per text.
C22_DimensionGuard ==
    /\ \A k \in 1..Len(embedRun.all_vectors) :
           /\ embedRun.all_vectors[k].dim = embedCall.embedding_dimension
           /\ embedRun.all_vectors[k].text = k - 1
    /\ embedRun.attempt \in 0..(EmbedAttempts - 1)
    /\ embedRun.pc = "running" =>
           Len(embedRun.all_vectors) = Min(embedRun.i, embedCall.n_texts)
    /\ embedRun.pc = "raised" =>
           /\ embedRun.attempt = EmbedAttempts - 1
           /\ Len(embedRun.all_vectors) = embedRun.i
    /\ embedRun.pc = "returned" =>
           Len(embedRun.all_vectors) = embedCall.n_texts

\* C22's case: three texts in two batches were embedded although an attempt
\* returned a vector of the wrong dimension on the way
C22_Witness ==
    /\ embedRun.pc = "returned"
    /\ embedCall.n_texts = 3 /\ embedCall.embed_batch_size = 2
    /\ embedRun.mismatches >= 1
    /\ Len(embedRun.all_vectors) = 3

\* ------------------------------------------- WebSearchService._cache

\* _cache_max_size (100 in the source) and _cache_ttl (300 seconds), scaled
\* down; the time runs from 0 to MaxTime
CacheMaxSize == 2
CacheTtl == 2
MaxTime == 3

\* The cache keys f"{provider}:{query}:{k}:{region}:{language}" of the searches
CacheKeys == {"a", "b", "c"}

\* cache_key in self._cache; self._cache[cache_key]
InCache(c, key) == \E i \in 1..Len(c) : c[i].key = key
Position(c, key) == CHOOSE i \in 1..Len(c) : c[i].key = key

\* cache_key in self._cache and time.time() - timestamp <= self._cache_ttl
IsCacheHit(c, key, now) ==
    InCache(c, key) /\ now - c[Position(c, key)].timestamp <= CacheTtl

\* min(self._cache.keys(), key=lambda k: self._cache[k][0]): the first key,
\* in dict order, with the smallest timestamp
OldestKey(c) ==
    c[CHOOSE i \in 1..Len(c) :
          /\ \A j \in 1..Len(c) : c[i].timestamp <= c[j].timestamp
          /\ \A j \in 1..(i - 1) : c[j].timestamp > c[i].timestamp].key

\* self._cache.pop(key)
Pop(c, key) == SelectSeq(c, LAMBDA e : e.key /= key)

\* self._cache[cache_key] = (time.time(), results): an existing key keeps its
\* place in the dict, a new one goes to the end
Assign(c, key, now) ==
    IF InCache(c, key)
    THEN [c EXCEPT ![Position(c, key)].timestamp = now]
    ELSE Append(c, [key |-> key, timestamp |-> now])

\* if len(self._cache) >= self._cache_max_size: pop the oldest entry
IsFull(c) == Len(c) >= CacheMaxSize
AfterEviction(c) == IF IsFull(c) THEN Pop(c, OldestKey(c)) ELSE c

\* No entry of the cache was used (stored or hit) longer ago than key was
IsLeastRecentlyUsed(c, last_used, key) ==
    \A i \in 1..Len(c) : last_used[key] <= last_used[c[i].key]

InitCache ==
    /\ cache = <<>>
    /\ clock = 0
    /\ cacheUse = [pending |-> {}, last_used |-> [k \in CacheKeys |-> 0],
                   evicted |-> <<>>]
    /\ RetrievalIdle /\ VectorDBIdle /\ EmbedIdle /\ JobsIdle

CacheUnchanged ==
    UNCHANGED <<retrievalVars, vectorDBVars, embedVars, jobVars>>

\* Time passes
Tick ==
    /\ cacheUse /= Idle /\ clock < MaxTime
    /\ clock' = clock + 1
    /\ UNCHANGED <<cache, cacheUse>>
    /\ CacheUnchanged

\* search(query, use_cache=True) finds a fresh entry and returns its results
SearchHit(key) ==
    /\ cacheUse /= Idle
    /\ IsCacheHit(cache, key, clock)
    /\ cacheUse' = [cacheUse EXCEPT !.last_used[key] = clock]
    /\ UNCHANGED <<cache, clock>>
    /\ CacheUnchanged

\* search(query, use_cache=True) finds no fresh entry and awaits the provider
SearchMiss(key) ==
    /\ cacheUse /= Idle
    /\ ~IsCacheHit(cache, key, clock)
    /\ key \notin cacheUse.pending
    /\ cacheUse' = [cacheUse EXCEPT !.pending = @ \cup {key}]
    /\ UNCHANGED <<cache, clock>>
    /\ CacheUnchanged

\* The provider returns: the results are stored, after the oldest entry was
\* removed if the cache is full
ProviderReturns(key) ==
    /\ cacheUse /= Idle
    /\ key \in cacheUse.pending
    /\ cache' = Assign(AfterEviction(cache), key, clock)
    /\ cacheUse' =
           [cacheUse EXCEPT
               !.pending = @ \ {key},
               !.last_used[key] = clock,
               !.evicted =
                   IF IsFull(cache)
                   THEN <<[key |-> OldestKey(cache),
                           lru |-> IsLeastRecentlyUsed(cache, cacheUse.last_used,
                                                       OldestKey(cache))]>>
                   ELSE @]
    /\ UNCHANGED clock
    /\ CacheUnchanged

\* The provider raises: search re-raises and stores nothing
ProviderRaises(key) ==
    /\ cacheUse /= Idle
    /\ key \in cacheUse.pending
    /\ cacheUse' = [cacheUse EXCEPT !.pending = @ \ {key}]
    /\ UNCHANGED <<cache, clock>>
    /\ CacheUnchanged

NextCache ==
    \/ Tick
    \/ \E key \in CacheKeys : SearchHit(key)
    \/ \E key \in CacheKeys : SearchMiss(key)
    \/ \E key \in CacheKeys : ProviderReturns(key)
    \/ \E key \in CacheKeys : ProviderRaises(key)

SpecCache == InitCache /\ [][NextCache]_vars

\* ------------------------------------------------ search cache: claims

\* C29: the search-result cache is an LRU cache: the entry evicted when a
\* result is stored into a full cache is the least recently used one, a cache
\* hit counting as a use; the cache never holds more than _cache_max_size
\* entries.
C29_LruEviction ==
    /\ Len(cache) <= CacheMaxSize
    /\ \A i \in 1..Len(cacheUse.evicted) : cacheUse.evicted[i].lru

\* ------------------------------------------------ in-memory job store

MaxJobs == 2

\* The statuses _background_process and process_material write
JobStatuses == {"pending", "processing", "completed", "failed"}

\* status is a query parameter of the route that the decorator of line 98
\* registers for _create_job_record: any string the client sends
RequestedStatuses == JobStatuses \cup {"anything"}

\* _create_job_record(status, info): a new record under a fresh uuid4 (here
\* the next index)
CreateJobRecord(js, status) == Append(js, [status |-> status])

\* _update_job(job_id, status=...): under the lock, if job_id in _jobs
UpdateJob(js, job_id, status) ==
    IF job_id \in DOMAIN js THEN [js EXCEPT ![job_id].status = status] ELSE js

\* The statuses a job has had, with the new one at the end
Recorded(h, job_id, status) ==
    [h EXCEPT ![job_id].statuses = Append(@, status)]

\* What job_status has returned for a job, repeated values once
Observed(h, job_id, status) ==
    [h EXCEPT ![job_id].reads =
        IF @ /= <<>> /\ @[Len(@)] = status THEN @ ELSE Append(@, status)]

InitJobs ==
    /\ jobs = <<>>
    /\ jobTasks = <<>>
    /\ jobHistory = <<>>
    /\ RetrievalIdle /\ VectorDBIdle /\ EmbedIdle /\ CacheIdle

JobsUnchanged ==
    UNCHANGED <<retrievalVars, vectorDBVars, embedVars, cacheVars>>

\* process_material: the record is created as pending and _background_process
\* is scheduled for it
ProcessMaterial ==
    /\ Len(jobs) < MaxJobs
    /\ jobs' = CreateJobRecord(jobs, "pending")
    /\ jobTasks' = Append(jobTasks, "scheduled")
    /\ jobHistory' = Append(jobHistory,
                            [statuses |-> <<"pending">>, reads |-> <<>>])
    /\ JobsUnchanged

\* POST /internal/process-material as routed to _create_job_record, the first
\* function registered for the path: the record gets the status of the
\* request, and no background task is scheduled
CreateJobRecordRoute ==
    /\ Len(jobs) < MaxJobs
    /\ \E status \in RequestedStatuses :
           /\ jobs' = CreateJobRecord(jobs, status)
           /\ jobHistory' = Append(jobHistory,
                                   [statuses |-> <<status>>, reads |-> <<>>])
    /\ jobTasks' = Append(jobTasks, "none")
    /\ JobsUnchanged

\* _background_process starts: _update_job(job_id, status="processing")
BackgroundStarts(job_id) ==
    /\ job_id \in DOMAIN jobTasks /\ jobTasks[job_id] = "scheduled"
    /\ jobs' = UpdateJob(jobs, job_id, "processing")
    /\ jobTasks' = [jobTasks EXCEPT ![job_id] = "processing"]
    /\ jobHistory' = Recorded(jobHistory, job_id, "processing")
    /\ JobsUnchanged

\* _background_process ends with status="failed": no text, no chunks, an
\* embedding error, or an unexpected exception
BackgroundFails(job_id) ==
    /\ job_id \in DOMAIN jobTasks /\ jobTasks[job_id] = "processing"
    /\ jobs' = UpdateJob(jobs, job_id, "failed")
    /\ jobTasks' = [jobTasks EXCEPT ![job_id] = "done"]
    /\ jobHistory' = Recorded(jobHistory, job_id, "failed")
    /\ JobsUnchanged

\* _background_process ends with status="completed" and the result
BackgroundCompletes(job_id) ==
    /\ job_id \in DOMAIN jobTasks /\ jobTasks[job_id] = "processing"
    /\ jobs' = UpdateJob(jobs, job_id, "completed")
    /\ jobTasks' = [jobTasks EXCEPT ![job_id] = "done"]
    /\ jobHistory' = Recorded(jobHistory, job_id, "completed")
    /\ JobsUnchanged

\* job_status(job_id): the record is read under the lock and returned
JobStatus(job_id) ==
    /\ job_id \in DOMAIN jobs
    /\ jobHistory' = Observed(jobHistory, job_id, jobs[job_id].status)
    /\ UNCHANGED <<jobs, jobTasks>>
    /\ JobsUnchanged

BackgroundStep(job_id) ==
    \/ BackgroundStarts(job_id)
    \/ BackgroundFails(job_id)
    \/ BackgroundCompletes(job_id)

NextJobs ==
    \/ ProcessMaterial
    \/ CreateJobRecordRoute
    \/ \E job_id \in DOMAIN jobs : BackgroundStarts(job_id)
    \/ \E job_id \in DOMAIN jobs : BackgroundFails(job_id)
    \/ \E job_id \in DOMAIN jobs : BackgroundCompletes(job_id)
    \/ \E job_id \in DOMAIN jobs : JobStatus(job_id)

SpecJobs == InitJobs /\ [][NextJobs]_vars

\* The background tasks run in the server's thread pool: a task that was
\* scheduled is started, and one that started runs to its end
SpecJobsFair ==
    SpecJobs /\ \A job_id \in 1..MaxJobs : WF_vars(BackgroundStep(job_id))

\* ---------------------------------------------------- job store: claims

\* s is a beginning of t
IsPrefix(s, t) == Len(s) <= Len(t) /\ \A i \in 1..Len(s) : s[i] = t[i]

Rank(status) ==
    IF status = "pending" THEN 1
    ELSE IF status = "processing" THEN 2
    ELSE IF status \in {"completed", "failed"} THEN 3
    ELSE 0

\* C30: every job in the job store follows the lifecycle pending ->
\* processing -> (completed | failed): the statuses it has had are a beginning
\* of that sequence, and what job_status returns for it never moves backwards
\* and never changes after completed or failed.
C30_JobLifecycle ==
    \A job_id \in DOMAIN jobs :
        /\ \/ IsPrefix(jobHistory[job_id].statuses,
                       <<"pending", "processing", "completed">>)
           \/ IsPrefix(jobHistory[job_id].statuses,
                       <<"pending", "processing", "failed">>)
        /\ \A i \in 1..(Len(jobHistory[job_id].reads) - 1) :
               Rank(jobHistory[job_id].reads[i])
                   < Rank(jobHistory[job_id].reads[i + 1])

\* Every job whose background task was scheduled eventually reaches completed
\* or failed (checked under SpecJobsFair)
ScheduledJobsFinish ==
    \A job_id \in 1..MaxJobs :
        (job_id \in DOMAIN jobs /\ jobTasks[job_id] = "scheduled")
            ~> (/\ job_id \in DOMAIN jobs
                /\ jobs[job_id].status \in {"completed", "failed"})

=============================================================================
